---- MODULE Spec2Model ----
(***************************************************************************)
(* Model of wrappers/linklist_cs.cpp: the C-linkage boundary functions     *)
(* linklist_add, linklist_size and linklist_destroy.  Each one forwards a   *)
(* single call on a LinkView* to the database engine inside handle_errors.  *)
(*                                                                         *)
(* The engine object (LinkView) and handle_errors are declared in headers   *)
(* that are not part of the fragment; they are modelled from the           *)
(* description of the boundary contract.                                   *)
(***************************************************************************)
EXTENDS Integers, Sequences, FiniteSets

\* ---------------------------------------------------------------- bounds
NumHandles == 1
MaxLen == 2
TableSize == 8

\* ------------------------------------------------------------- constants
NULL == 0
VoidRet == -1

\* Handle values are addresses: the allocator may hand out again the address
\* of an object that has been deleted.
Handles == 1..NumHandles
HandleArgs == Handles \cup {NULL}
ValidRows == {5, 7}
RowArgs == ValidRows \cup {TableSize}
\* size_t: the element counts a list of the model can have, and one value
\* beyond them standing for the values of the type no list reaches.
SizeT == 0..(MaxLen + 1)
InitContents == {<<>>, <<7>>}

VARIABLES live, destroyed, list, txnValid, base, appended, lastSize, last

vars == <<live, destroyed, list, txnValid, base, appended, lastSize, last>>

\* ------------------------------------------------------- engine: LinkView
\* Result of engine work: it yields a value, raises a fault, or (only when
\* the pointer does not refer to a live object) takes the process down.
\* calls lists the engine calls that were made, in order.
EngineValue(v, l, c) == [kind |-> "value", value |-> v, list |-> l, calls |-> c]
EngineRaise(l, c) == [kind |-> "raise", value |-> VoidRet, list |-> l, calls |-> c]
EngineCrash(l, c) == [kind |-> "crash", value |-> VoidRet, list |-> l, calls |-> c]

LinkView_insert(l, ndx, row_ndx) ==
    SubSeq(l, 1, ndx) \o <<row_ndx>> \o SubSeq(l, ndx + 1, Len(l))

LinkView_size(l) == Len(l)

\* add(row_ndx): a row index outside the target table, or a call made while
\* the ambient transaction state does not permit it (ok false), is reported
\* as a fault and leaves the list as it was; otherwise the row is inserted
\* at position size().
LinkView_add(l, row_ndx, ok) ==
    IF ~ok \/ row_ndx >= TableSize
    THEN EngineRaise(l, <<"add">>)
    ELSE EngineValue(VoidRet, LinkView_insert(l, LinkView_size(l), row_ndx),
                     <<"add">>)

\* size(): the element count, or a fault when the transaction state does
\* not permit the call.
LinkView_size_call(l, ok) ==
    IF ~ok
    THEN EngineRaise(l, <<"size">>)
    ELSE EngineValue(LinkView_size(l), l, <<"size">>)

\* delete of a live object: its destructor runs and the contents are gone.
LinkView_delete(l) == EngineValue(VoidRet, <<>>, <<"delete">>)

\* Dereferencing a null or dangling LinkView* is undefined behaviour: the
\* build may crash, the engine may notice and raise, or the call may return
\* some value as if nothing were wrong.
Undefined(values, l, callName) ==
    {EngineCrash(l, <<callName>>), EngineRaise(l, <<callName>>)}
      \cup {EngineValue(v, l, <<callName>>) : v \in values}

\* ----------------------------------------------------------- handle_errors
\* The fault-capturing scope: passes a value through unchanged, turns a
\* raised fault into the recorded EngineFault signal.  Neither the contract
\* nor the exported functions fix the value handed back with a fault, so it
\* ranges over the whole result type.
handle_errors(res, retType) ==
    CASE res.kind = "value" ->
           {[status |-> "returned", err |-> "none", ret |-> res.value]}
      [] res.kind = "raise" ->
           {[status |-> "returned", err |-> "EngineFault", ret |-> v] :
              v \in retType}
      [] res.kind = "crash" ->
           {[status |-> "crashed", err |-> "none", ret |-> VoidRet]}

\* An outcome of one exported call: what the caller sees (status, err, ret),
\* what the engine did (raised, calls, ub) and the engine state afterwards
\* (list: the contents behind the handle, alive: whether the object lives).
Outcomes(res, retType, isUb, stillAlive) ==
    {[status |-> o.status, err |-> o.err, ret |-> o.ret,
      raised |-> (res.kind = "raise"), ub |-> isUb,
      calls |-> res.calls, list |-> res.list, alive |-> stillAlive] :
        o \in handle_errors(res, retType)}

\* ------------------------------------------------- the exported functions
\* Each takes the handle, its arguments and the engine state (the set of
\* live objects lv, their contents ls, the transaction state ok) and yields
\* the possible outcomes.

\* Faulty variant: the engine call is made outside handle_errors.
linklist_add_unguarded(h, row_ndx, lv, ls, ok) ==
    IF h \in lv
    THEN {[o EXCEPT !.status = IF o.raised THEN "escaped" ELSE o.status,
                    !.err = "none"] :
            o \in Outcomes(LinkView_add(ls[h], row_ndx, ok), {VoidRet},
                           FALSE, TRUE)}
    ELSE UNION {Outcomes(r, {VoidRet}, TRUE, FALSE) :
                  r \in Undefined({VoidRet}, ls[h], "add")}

\* Faulty variant: the row is forwarded to the engine twice.
linklist_add_twice(h, row_ndx, lv, ls, ok) ==
    IF h \in lv
    THEN LET first == LinkView_add(ls[h], row_ndx, ok)
             second == LinkView_add(first.list, row_ndx, ok)
         IN Outcomes([second EXCEPT !.calls = first.calls \o second.calls],
                     {VoidRet}, FALSE, TRUE)
    ELSE UNION {Outcomes(r, {VoidRet}, TRUE, FALSE) :
                  r \in Undefined({VoidRet}, ls[h], "add")}

\* Faulty variant: the row is inserted at the front of the list.
linklist_add_front(h, row_ndx, lv, ls, ok) ==
    IF h \in lv
    THEN Outcomes(IF ~ok \/ row_ndx >= TableSize
                  THEN EngineRaise(ls[h], <<"add">>)
                  ELSE EngineValue(VoidRet, LinkView_insert(ls[h], 0, row_ndx),
                                   <<"add">>),
                  {VoidRet}, FALSE, TRUE)
    ELSE UNION {Outcomes(r, {VoidRet}, TRUE, FALSE) :
                  r \in Undefined({VoidRet}, ls[h], "add")}

\* Faulty variant: when add raises, the adapter calls add a second time and
\* reports the result of that second call.
linklist_add_retry(h, row_ndx, lv, ls, ok) ==
    IF h \in lv
    THEN LET first == LinkView_add(ls[h], row_ndx, ok)
             second == LinkView_add(first.list, row_ndx, ok)
         IN Outcomes(IF first.kind = "raise"
                     THEN [second EXCEPT !.calls = first.calls \o second.calls]
                     ELSE first,
                     {VoidRet}, FALSE, TRUE)
    ELSE UNION {Outcomes(r, {VoidRet}, TRUE, FALSE) :
                  r \in Undefined({VoidRet}, ls[h], "add")}

\* linklist_add: handle_errors([&]() { linklist_ptr->add(row_ndx); })
linklist_add(h, row_ndx, lv, ls, ok) ==
    IF h \in lv
    THEN Outcomes(LinkView_add(ls[h], row_ndx, ok), {VoidRet}, FALSE, TRUE)
    ELSE UNION {Outcomes(r, {VoidRet}, TRUE, FALSE) :
                  r \in Undefined({VoidRet}, ls[h], "add")}

\* Faulty variant: the count is adjusted by one.
linklist_size_plus_one(h, lv, ls, ok) ==
    IF h \in lv
    THEN LET res == LinkView_size_call(ls[h], ok)
         IN Outcomes(IF res.kind = "value"
                     THEN [res EXCEPT !.value = @ + 1] ELSE res,
                     SizeT, FALSE, TRUE)
    ELSE UNION {Outcomes(r, SizeT, TRUE, FALSE) :
                  r \in Undefined(SizeT, ls[h], "size")}

\* Faulty variant: the count is truncated to one bit.
linklist_size_truncated(h, lv, ls, ok) ==
    IF h \in lv
    THEN LET res == LinkView_size_call(ls[h], ok)
         IN Outcomes(IF res.kind = "value"
                     THEN [res EXCEPT !.value = @ % 2] ELSE res,
                     SizeT, FALSE, TRUE)
    ELSE UNION {Outcomes(r, SizeT, TRUE, FALSE) :
                  r \in Undefined(SizeT, ls[h], "size")}

\* Faulty variant: reading the size empties the list.
linklist_size_consuming(h, lv, ls, ok) ==
    IF h \in lv
    THEN Outcomes([LinkView_size_call(ls[h], ok) EXCEPT !.list = <<>>],
                  SizeT, FALSE, TRUE)
    ELSE UNION {Outcomes(r, SizeT, TRUE, FALSE) :
                  r \in Undefined(SizeT, ls[h], "size")}

\* linklist_size: return handle_errors([&]() { return linklist_ptr->size(); })
linklist_size(h, lv, ls, ok) ==
    IF h \in lv
    THEN Outcomes(LinkView_size_call(ls[h], ok), SizeT, FALSE, TRUE)
    ELSE UNION {Outcomes(r, SizeT, TRUE, FALSE) :
                  r \in Undefined(SizeT, ls[h], "size")}

\* Faulty variant: a null handle is rejected with a fault.
linklist_destroy_checked(h, lv, ls, ok) ==
    IF h = NULL
    THEN Outcomes(EngineRaise(ls[h], <<>>), {VoidRet}, FALSE, FALSE)
    ELSE IF h \in lv
    THEN Outcomes(LinkView_delete(ls[h]), {VoidRet}, FALSE, FALSE)
    ELSE UNION {Outcomes(r, {VoidRet}, TRUE, FALSE) :
                  r \in Undefined({VoidRet}, ls[h], "delete")}

\* Faulty variant: the object is not released.
linklist_destroy_leak(h, lv, ls, ok) ==
    IF h = NULL
    THEN Outcomes(EngineValue(VoidRet, ls[h], <<>>), {VoidRet}, FALSE, FALSE)
    ELSE IF h \in lv
    THEN Outcomes(EngineValue(VoidRet, ls[h], <<>>), {VoidRet}, FALSE, TRUE)
    ELSE UNION {Outcomes(r, {VoidRet}, TRUE, FALSE) :
                  r \in Undefined({VoidRet}, ls[h], "delete")}

\* linklist_destroy: handle_errors([&]() { delete(linklist_ptr); })
\* delete of a null pointer runs no engine code and has no effect; delete of
\* a live object ends its lifetime, whatever the transaction state; delete
\* of an already deleted object is undefined.
linklist_destroy(h, lv, ls, ok) ==
    IF h = NULL
    THEN Outcomes(EngineValue(VoidRet, ls[h], <<>>), {VoidRet}, FALSE, FALSE)
    ELSE IF h \in lv
    THEN Outcomes(LinkView_delete(ls[h]), {VoidRet}, FALSE, FALSE)
    ELSE UNION {Outcomes(r, {VoidRet}, TRUE, FALSE) :
                  r \in Undefined({VoidRet}, ls[h], "delete")}

\* ------------------------------------------------------------------ state
Ops == {"add", "size", "destroy"}

Succeeded(o) == o.status = "returned" /\ o.err = "none"

NoCall ==
    [op |-> "none", handle |-> NULL, row |-> 0, wasLive |-> FALSE,
     wasDestroyed |-> FALSE, nth |-> 0, status |-> "returned", err |-> "none",
     ret |-> VoidRet, raised |-> FALSE, ub |-> FALSE, calls |-> <<>>]

\* The record of the call just made, as the caller and the engine saw it.
Record(op, h, row_ndx, o) ==
    [op |-> op, handle |-> h, row |-> row_ndx, wasLive |-> (h \in live),
     wasDestroyed |-> (h \in destroyed),
     nth |-> IF last.op = op /\ last.handle = h /\ last.nth < 2
             THEN last.nth + 1
             ELSE IF last.op = op /\ last.handle = h THEN 2 ELSE 1,
     status |-> o.status, err |-> o.err, ret |-> o.ret, raised |-> o.raised,
     ub |-> o.ub, calls |-> o.calls]

Running == last.status = "returned"

Init ==
    /\ live = {}
    /\ destroyed = {}
    /\ list = [h \in HandleArgs |-> <<>>]
    /\ txnValid = TRUE
    /\ base = [h \in HandleArgs |-> <<>>]
    /\ appended = [h \in HandleArgs |-> <<>>]
    /\ lastSize = [h \in HandleArgs |-> VoidRet]
    /\ last = NoCall

\* The engine hands a new list object to the caller (outside this layer).
\* Its address is one not in use now; it may be that of a deleted object.
Create(h, init) ==
    /\ Running
    /\ h \notin live
    /\ live' = live \cup {h}
    /\ destroyed' = destroyed \ {h}
    /\ list' = [list EXCEPT ![h] = init]
    /\ base' = [base EXCEPT ![h] = init]
    /\ appended' = [appended EXCEPT ![h] = <<>>]
    /\ lastSize' = [lastSize EXCEPT ![h] = VoidRet]
    /\ last' = [NoCall EXCEPT !.op = "create", !.handle = h]
    /\ UNCHANGED txnValid

\* The engine's ambient transaction state changes (outside this layer).
TransactionChange ==
    /\ Running
    /\ txnValid' = ~txnValid
    /\ last' = [NoCall EXCEPT !.op = "engine"]
    /\ UNCHANGED <<live, destroyed, list, base, appended, lastSize>>

AppendCall(h, row_ndx) ==
    /\ Running
    /\ (h \in live /\ row_ndx < TableSize /\ txnValid) => Len(list[h]) < MaxLen
    /\ \E o \in linklist_add(h, row_ndx, live, list, txnValid) :
         /\ last' = Record("add", h, row_ndx, o)
         /\ list' = [list EXCEPT ![h] = o.list]
         /\ live' = IF o.alive THEN live ELSE live \ {h}
         /\ appended' = IF h \in live /\ Succeeded(o)
                        THEN [appended EXCEPT ![h] = Append(@, row_ndx)]
                        ELSE appended
         /\ lastSize' = IF h \in live /\ Succeeded(o)
                        THEN [lastSize EXCEPT ![h] = VoidRet]
                        ELSE lastSize
    /\ UNCHANGED <<destroyed, txnValid, base>>

SizeCall(h) ==
    /\ Running
    /\ \E o \in linklist_size(h, live, list, txnValid) :
         /\ last' = Record("size", h, 0, o)
         /\ list' = [list EXCEPT ![h] = o.list]
         /\ live' = IF o.alive THEN live ELSE live \ {h}
         /\ lastSize' = IF h \in live /\ Succeeded(o)
                        THEN [lastSize EXCEPT ![h] = o.ret]
                        ELSE lastSize
    /\ UNCHANGED <<destroyed, txnValid, base, appended>>

DestroyCall(h) ==
    /\ Running
    /\ \E o \in linklist_destroy(h, live, list, txnValid) :
         /\ last' = Record("destroy", h, 0, o)
         /\ list' = [list EXCEPT ![h] = o.list]
         /\ live' = IF o.alive THEN live ELSE live \ {h}
         /\ destroyed' = IF h \in live /\ o.status = "returned"
                         THEN destroyed \cup {h}
                         ELSE destroyed
    /\ UNCHANGED <<txnValid, base, appended, lastSize>>

Next ==
    \/ \E h \in Handles, init \in InitContents : Create(h, init)
    \/ TransactionChange
    \/ \E h \in HandleArgs, row_ndx \in RowArgs : AppendCall(h, row_ndx)
    \/ \E h \in HandleArgs : SizeCall(h)
    \/ \E h \in HandleArgs : DestroyCall(h)

Spec == Init /\ [][Next]_vars

TypeOK ==
    /\ live \subseteq Handles
    /\ destroyed \subseteq Handles
    /\ txnValid \in BOOLEAN
    /\ last.op \in Ops \cup {"none", "create", "engine"}
    /\ last.status \in {"returned", "crashed"}


\* ----------------------------------------------------------------- claims
IsCall == last.op \in Ops

\* What a Size that the engine lets through reports for a handle in a given
\* engine state.
SizeResults(h, lv, ls) ==
    {o.ret : o \in {x \in linklist_size(h, lv, ls, TRUE) : Succeeded(x)}}

\* C1: no fault crosses the boundary unconverted: whenever the wrapped
\* engine call raised, the exported operation returned to its caller with the
\* EngineFault signal recorded, and no call ever ends with a fault escaping.
C1_FaultStopsAtBoundary ==
    /\ last.status # "escaped"
    /\ (IsCall /\ last.raised) =>
         (last.status = "returned" /\ last.err = "EngineFault")

\* An Append with an out-of-range row on a live list raised and was translated.
C1_Witness ==
    /\ last.op = "add" /\ last.wasLive /\ last.row >= TableSize
    /\ last.raised /\ last.err = "EngineFault"

\* C2: a successful Append(handle, r) on a live handle with a valid row r
\* makes linklist_size report exactly one more, and the new last element of
\* the list is r.
C2_AppendGrowsByOne ==
    [][\A h \in Handles, r \in ValidRows :
         (/\ h \in live
          /\ last'.op = "add" /\ last'.handle = h /\ last'.row = r
          /\ last'.status = "returned" /\ last'.err = "none")
         => /\ h \in live'
            /\ \A before \in SizeResults(h, live, list),
                  after \in SizeResults(h, live', list') : after = before + 1
            /\ Len(list'[h]) > 0
            /\ list'[h][Len(list'[h])] = r]_vars

\* A successful Append of row 5 onto a non-empty live list has just happened.
C2_Witness ==
    /\ last.op = "add" /\ last.wasLive /\ last.row = 5
    /\ last.status = "returned" /\ last.err = "none"
    /\ Len(list[last.handle]) = 2

\* C3 as stated: every operation on an invalid handle (null or destroyed)
\* returns with the EngineFault signal.
C3_InvalidHandleAlwaysFaults ==
    (IsCall /\ ~last.wasLive) =>
      (last.status = "returned" /\ last.err = "EngineFault")

\* C3 amended: the adapter makes no validity check.  Destroy of the null
\* handle returns normally with no error signal and no effect; every other
\* operation on a null or destroyed handle dereferences it (undefined
\* behaviour), and the caller gets EngineFault exactly when the engine itself
\* raised.
C3_NoValidityCheck ==
    /\ (last.op = "destroy" /\ last.handle = NULL) =>
         (last.status = "returned" /\ last.err = "none" /\ ~last.ub
          /\ ~last.raised)
    /\ (IsCall /\ ~last.wasLive /\ ~(last.op = "destroy" /\ last.handle = NULL))
         => (last.ub /\ (last.err = "EngineFault" <=> last.raised))

\* Destroy(null) has returned while a list is live.
C3_Witness ==
    /\ last.op = "destroy" /\ last.handle = NULL /\ last.status = "returned"
    /\ live # {}

\* C4 as stated: after Destroy(handle), no later Append, Size or Destroy on
\* that handle ends as a normal successful call.
C4_DestroyedNeverTolerated ==
    (IsCall /\ last.wasDestroyed) =>
      ~(last.status = "returned" /\ last.err = "none")

\* C4 amended: Destroy on a live handle ends the object's lifetime; the
\* handle is invalid from then on and becomes valid again only when the
\* engine hands the same handle value out for a new list.  A later call on
\* the destroyed handle is not detected by the adapter (it may crash, signal
\* EngineFault or return as if it had succeeded).
C4_DestroyEndsLifetime ==
    [][\A h \in Handles :
         /\ (h \in live /\ last'.op = "destroy" /\ last'.handle = h
             /\ last'.status = "returned")
              => (h \notin live' /\ h \in destroyed')
         /\ h \in destroyed
              => /\ h \notin live
                 /\ (h \in live' \/ h \notin destroyed')
                      => (last'.op = "create" /\ last'.handle = h
                          /\ h \in live' /\ h \notin destroyed')]_vars

\* create -> Append(5) -> Append(7) -> Size() = 2 -> Destroy() -> Size():
\* the last call is on the destroyed handle and returned as if it succeeded.
C4_Witness ==
    \E h \in Handles :
      /\ base[h] = <<>> /\ appended[h] = <<5, 7>> /\ lastSize[h] = 2
      /\ h \in destroyed /\ h \notin live
      /\ last.op = "size" /\ last.handle = h /\ last.wasDestroyed
      /\ last.status = "returned" /\ last.err = "none"

\* C5: on a list obtained empty, after successful Append r1 .. rn the list
\* is exactly <<r1, .., rn>> and linklist_size reports n.
C5_AppendKeepsOrder ==
    \A h \in live :
      base[h] = <<>> =>
        /\ list[h] = appended[h]
        /\ SizeResults(h, live, list) = {Len(appended[h])}

\* Append(5), Append(7) on an empty list, then Size returned 2.
C5_Witness ==
    \E h \in live :
      /\ base[h] = <<>> /\ appended[h] = <<5, 7>>
      /\ last.op = "size" /\ last.handle = h /\ last.ret = 2

\* C6: Size on a list obtained empty, before any successful Append,
\* returns 0 (unless the engine raised a fault on the call).
C6_FreshEmptySizeZero ==
    (/\ last.op = "size" /\ last.wasLive /\ ~last.raised
     /\ base[last.handle] = <<>> /\ appended[last.handle] = <<>>)
    => (last.status = "returned" /\ last.err = "none" /\ last.ret = 0)

\* Size has been called on a fresh empty list.
C6_Witness ==
    /\ last.op = "size" /\ last.wasLive /\ ~last.raised
    /\ base[last.handle] = <<>> /\ appended[last.handle] = <<>>

\* C7: Size on a live handle changes neither the contents of any list nor
\* which handles are live or destroyed, and repeats the value of the
\* previous Size on that handle when no Append came between (and the engine
\* raised no fault on the call).
C7_SizeIsPureRead ==
    [][\A h \in Handles :
         (h \in live /\ last'.op = "size" /\ last'.handle = h)
         => /\ list' = list /\ live' = live /\ destroyed' = destroyed
            /\ (lastSize[h] # VoidRet /\ ~last'.raised)
                 => last'.ret = lastSize[h]]_vars

\* Two Size calls in a row on a live non-empty list.
C7_Witness ==
    /\ last.op = "size" /\ last.wasLive /\ last.nth = 2 /\ ~last.raised
    /\ last.ret = lastSize[last.handle] /\ last.ret > 0

\* C9: on success linklist_size returns exactly what the engine's size()
\* produced for that list.
C9_SizeReturnsEngineValue ==
    (/\ last.op = "size" /\ last.wasLive
     /\ last.status = "returned" /\ last.err = "none")
    => last.ret = LinkView_size(list[last.handle])

\* Size returned 2 for a live list of two elements.
C9_Witness ==
    /\ last.op = "size" /\ last.wasLive /\ last.ret = 2
    /\ Len(list[last.handle]) = 2

EngineCallOf(op) ==
    CASE op = "add" -> "add" [] op = "size" -> "size" [] op = "destroy" -> "delete"

\* C10 as stated: every invocation performs exactly one engine call.
C10_AlwaysOneEngineCall ==
    IsCall => last.calls = <<EngineCallOf(last.op)>>

\* C10 amended: on a live handle one invocation makes exactly one engine
\* call (add, size or delete), also when that call faults (no retry), and
\* its effect and result are those of that single engine call on the
\* engine's current state, whatever was called before; Destroy on the null
\* handle makes no engine call.
C10_OneShotForward ==
    [][(last'.op \in Ops) =>
         LET h == last'.handle
         IN /\ h \in live => last'.calls = <<EngineCallOf(last'.op)>>
            /\ (last'.op = "destroy" /\ h = NULL) =>
                 (last'.calls = <<>> /\ list' = list /\ live' = live)
            /\ (last'.op = "add" /\ h \in live) =>
                 LET e == LinkView_add(list[h], last'.row, txnValid)
                 IN /\ list' = [list EXCEPT ![h] = e.list]
                    /\ last'.raised = (e.kind = "raise")
            /\ (last'.op = "size" /\ h \in live) =>
                 LET e == LinkView_size_call(list[h], txnValid)
                 IN /\ list' = list
                    /\ last'.raised = (e.kind = "raise")
                    /\ e.kind = "value" => last'.ret = e.value
            /\ (last'.op = "destroy" /\ h \in live) => h \notin live']_vars

\* A faulted Append on a live non-empty list was forwarded once.
C10_Witness ==
    /\ last.op = "add" /\ last.wasLive /\ last.raised
    /\ last.calls = <<"add">> /\ Len(list[last.handle]) > 0

====
